---------------------------- MODULE Spec2Model ----------------------------
(***************************************************************************)
(* Model of elements/pl-code/pl-code.py: the highlight-lines parser,       *)
(* prepare(), the line-highlighting formatter and the front half of        *)
(* render().  Python strings are sequences of one-character strings.       *)
(***************************************************************************)
EXTENDS Integers, Sequences, FiniteSets, TLC

VARIABLES
    pc,                 \* the statement the modelled call is at
    highlight_lines,    \* the highlight-lines attribute / parser argument
    lines,              \* what parse_highlight_lines returned
    language,           \* the language attribute
    source_file_name,   \* the source-file-name attribute
    element_text,       \* element.text
    exc,                \* the exception the call raised
    tokensource,        \* the (t, value) stream given to _highlight_lines
    hl_lines,           \* formatter.hl_lines
    hl_color,           \* formatter.hl_color
    idx,                \* enumerate's counter i of the next item
    out,                \* the (t, value) items _highlight_lines has yielded
    no_highlight,       \* the no-highlight attribute
    highlight_lines_color, \* the highlight-lines-color attribute
    file_raw,           \* the characters stored in the source file
    code,               \* render's local variable code
    lexer,              \* render's local variable lexer
    lexer_text,         \* the text get_tokens_unprocessed is called with
    tokens              \* what get_tokens_unprocessed returned

elementVars == <<highlight_lines, lines, language, source_file_name,
                 element_text, exc>>

formatterVars == <<hl_lines, hl_color>>

streamVars == <<tokensource, idx, out>>

renderVars == <<no_highlight, highlight_lines_color, file_raw, code, lexer,
                lexer_text, tokens>>

vars == <<pc, elementVars, formatterVars, streamVars, renderVars>>

-----------------------------------------------------------------------------
(* Bounds *)

MaxLen == 5

MaxItems == 3

MaxFileLen == 3

MaxTextLen == 2

-----------------------------------------------------------------------------
(* Python values *)

None == [some |-> FALSE, val |-> <<>>]

Some(v) == [some |-> TRUE, val |-> v]

Unset == [some |-> FALSE, val |-> <<-1>>]

NoExc == [type |-> "none", msg |-> <<>>]

LANGUAGE_DEFAULT == "<None>"

SOURCE_FILE_NAME_DEFAULT == "<None>"

HIGHLIGHT_LINES_DEFAULT == None

HIGHLIGHT_LINES_COLOR_DEFAULT == "#b3d7ff"

NO_HIGHLIGHT_DEFAULT == FALSE

NoLexer == [kind |-> "none", name |-> "", compress |-> ""]

(* the values of the variables a call does not touch *)
ElementIdle ==
    /\ highlight_lines = HIGHLIGHT_LINES_DEFAULT
    /\ lines = Unset
    /\ language = LANGUAGE_DEFAULT
    /\ source_file_name = SOURCE_FILE_NAME_DEFAULT
    /\ element_text = None
    /\ exc = NoExc

FormatterIdle == hl_lines = {} /\ hl_color = HIGHLIGHT_LINES_COLOR_DEFAULT

StreamIdle == tokensource = <<>> /\ idx = 0 /\ out = <<>>

RenderIdle ==
    /\ no_highlight = NO_HIGHLIGHT_DEFAULT
    /\ highlight_lines_color = HIGHLIGHT_LINES_COLOR_DEFAULT
    /\ file_raw = <<>>
    /\ code = <<>>
    /\ lexer = NoLexer
    /\ lexer_text = <<>>
    /\ tokens = <<>>

Raise(type, msg) == [type |-> type, msg |-> msg]

Alphabet == {"0", "1", "2", "-", ",", " ", "x"}

Digits == {"0", "1", "2", "3", "4", "5", "6", "7", "8", "9"}

DigitVal(c) ==
    CASE c = "0" -> 0 [] c = "1" -> 1 [] c = "2" -> 2 [] c = "3" -> 3
      [] c = "4" -> 4 [] c = "5" -> 5 [] c = "6" -> 6 [] c = "7" -> 7
      [] c = "8" -> 8 [] c = "9" -> 9

Strings(n) == UNION {[1..k -> Alphabet] : k \in 0..n}

Range(s) == {s[k] : k \in DOMAIN s}

RECURSIVE Flatten(_, _, _)
(* the concatenation of ss[lo..hi], a sequence of sequences *)
Flatten(ss, lo, hi) ==
    IF lo > hi THEN <<>>
    ELSE IF lo = hi THEN ss[lo]
    ELSE LET mid == (lo + hi) \div 2
         IN  Flatten(ss, lo, mid) \o Flatten(ss, mid + 1, hi)

RECURSIVE DigitsValue(_)
DigitsValue(ds) ==
    IF ds = <<>> THEN 0
    ELSE 10 * DigitsValue(SubSeq(ds, 1, Len(ds) - 1)) + DigitVal(ds[Len(ds)])

-----------------------------------------------------------------------------
(* str.strip, str.split, int *)

PyStrip(s) ==
    LET keep == {k \in DOMAIN s : s[k] # " "}
    IN  IF keep = {} THEN <<>>
        ELSE SubSeq(s, CHOOSE k \in keep : \A m \in keep : k <= m,
                       CHOOSE k \in keep : \A m \in keep : k >= m)

RECURSIVE SepPositions(_, _, _, _)
(* the positions of sep in s[lo..hi], ascending *)
SepPositions(s, sep, lo, hi) ==
    IF lo > hi THEN <<>>
    ELSE IF lo = hi THEN (IF s[lo] = sep THEN <<lo>> ELSE <<>>)
    ELSE LET mid == (lo + hi) \div 2
         IN  SepPositions(s, sep, lo, mid) \o SepPositions(s, sep, mid + 1, hi)

PySplit(s, sep) ==
    LET pos  == SepPositions(s, sep, 1, Len(s))
        n    == Len(pos)
        from(k) == IF k = 1 THEN 1 ELSE pos[k - 1] + 1
        to(k)   == IF k = n + 1 THEN Len(s) ELSE pos[k] - 1
    IN  [k \in 1..(n + 1) |-> SubSeq(s, from(k), to(k))]

(* int(s): surrounding whitespace is ignored, then an optional sign and a  *)
(* non-empty run of digits; anything else raises ValueError (ok = FALSE).  *)
PyInt(s) ==
    LET t      == PyStrip(s)
        neg    == t # <<>> /\ t[1] = "-"
        ds     == IF neg THEN SubSeq(t, 2, Len(t)) ELSE t
        ok     == ds # <<>> /\ \A k \in DOMAIN ds : ds[k] \in Digits
    IN  IF ~ok THEN [ok |-> FALSE, val |-> 0]
        ELSE [ok |-> TRUE,
              val |-> IF neg THEN 0 - DigitsValue(ds) ELSE DigitsValue(ds)]

PyRange(start, stop) ==
    IF stop <= start THEN <<>>
    ELSE [k \in 1..(stop - start) |-> start + k - 1]

-----------------------------------------------------------------------------
(* parse_highlight_lines *)

(* the loop body with range(start, end): the end line left out *)
ParseComponent_ExclusiveEnd(raw) ==
    LET component == PyStrip(raw)
        line      == PyInt(component)
    IN  IF line.ok THEN [ok |-> TRUE, append |-> <<line.val>>]
        ELSE LET numbers == PySplit(component, "-")
             IN  IF Len(numbers) # 2 THEN [ok |-> FALSE, append |-> <<>>]
                 ELSE LET start == PyInt(numbers[1])
                          end   == PyInt(numbers[2])
                      IN  IF ~start.ok \/ ~end.ok
                          THEN [ok |-> FALSE, append |-> <<>>]
                          ELSE [ok |-> TRUE,
                                append |-> PyRange(start.val, end.val)]

(* the loop body appending line - 1 for a single number *)
ParseComponent_ZeroIndexed(raw) ==
    LET component == PyStrip(raw)
        line      == PyInt(component)
    IN  IF line.ok THEN [ok |-> TRUE, append |-> <<line.val - 1>>]
        ELSE LET numbers == PySplit(component, "-")
             IN  IF Len(numbers) # 2 THEN [ok |-> FALSE, append |-> <<>>]
                 ELSE LET start == PyInt(numbers[1])
                          end   == PyInt(numbers[2])
                      IN  IF ~start.ok \/ ~end.ok
                          THEN [ok |-> FALSE, append |-> <<>>]
                          ELSE [ok |-> TRUE,
                                append |-> PyRange(start.val, end.val + 1)]

(* the loop body swapping the ends of a range given backwards *)
ParseComponent_SwapsBackward(raw) ==
    LET component == PyStrip(raw)
        line      == PyInt(component)
    IN  IF line.ok THEN [ok |-> TRUE, append |-> <<line.val>>]
        ELSE LET numbers == PySplit(component, "-")
             IN  IF Len(numbers) # 2 THEN [ok |-> FALSE, append |-> <<>>]
                 ELSE LET start == PyInt(numbers[1])
                          end   == PyInt(numbers[2])
                      IN  IF ~start.ok \/ ~end.ok
                          THEN [ok |-> FALSE, append |-> <<>>]
                          ELSE [ok |-> TRUE,
                                append |-> IF start.val <= end.val
                                           THEN PyRange(start.val, end.val + 1)
                                           ELSE PyRange(end.val, start.val + 1)]

(* One pass of the loop body over a component: the numbers it appends, or  *)
(* ok = FALSE where the body executes "return None".                       *)
ParseComponent(raw) ==
    LET component == PyStrip(raw)
        line      == PyInt(component)
    IN  IF line.ok THEN [ok |-> TRUE, append |-> <<line.val>>]
        ELSE LET numbers == PySplit(component, "-")
             IN  IF Len(numbers) # 2 THEN [ok |-> FALSE, append |-> <<>>]
                 ELSE LET start == PyInt(numbers[1])
                          end   == PyInt(numbers[2])
                      IN  IF ~start.ok \/ ~end.ok
                          THEN [ok |-> FALSE, append |-> <<>>]
                          ELSE [ok |-> TRUE,
                                append |-> PyRange(start.val, end.val + 1)]

(* the loop leaving at a malformed component with the lines read so far *)
parse_highlight_lines_Partial(hl) ==
    LET components == PySplit(hl, ",")
        parsed     == [k \in DOMAIN components |-> ParseComponent(components[k])]
        good       == {k \in DOMAIN parsed : \A j \in 1..k : parsed[j].ok}
    IN  Some(Flatten([k \in 1..Cardinality(good) |-> parsed[k].append],
                     1, Cardinality(good)))

parse_highlight_lines(hl) ==
    LET components == PySplit(hl, ",")
        parsed     == [k \in DOMAIN components |-> ParseComponent(components[k])]
    IN  IF \E k \in DOMAIN parsed : ~parsed[k].ok THEN None
        ELSE Some(Flatten([k \in DOMAIN parsed |-> parsed[k].append],
                          1, Len(parsed)))

-----------------------------------------------------------------------------
(* SpecParse: a direct call of parse_highlight_lines *)

InitParse ==
    /\ pc = "parse_call"
    /\ highlight_lines \in {Some(s) : s \in Strings(MaxLen)}
    /\ lines = Unset
    /\ language = LANGUAGE_DEFAULT
    /\ source_file_name = SOURCE_FILE_NAME_DEFAULT
    /\ element_text = None
    /\ exc = NoExc
    /\ FormatterIdle /\ StreamIdle /\ RenderIdle

Parse ==
    /\ pc = "parse_call"
    /\ lines' = parse_highlight_lines(highlight_lines.val)
    /\ pc' = "parse_return"
    /\ UNCHANGED <<highlight_lines, language, source_file_name, element_text, exc>>
    /\ UNCHANGED <<formatterVars, streamVars, renderVars>>

NextParse == Parse

SpecParse == InitParse /\ [][NextParse]_vars

-----------------------------------------------------------------------------
(* The line-range grammar, stated on the text of a specification           *)
(*   spec := term (',' term)*      term := INTEGER | INTEGER '-' INTEGER   *)

(* the terms: the maximal comma-free stretches of the specification *)
TermSet(s) ==
    {SubSeq(s, a, b) : <<a, b>> \in
        {ab \in (1..(Len(s) + 1)) \X (0..Len(s)) :
            /\ ab[1] <= ab[2] + 1
            /\ ab[1] = 1 \/ s[ab[1] - 1] = ","
            /\ ab[2] = Len(s) \/ s[ab[2] + 1] = ","
            /\ \A k \in ab[1]..ab[2] : s[k] # ","}}

(* blanks, a non-empty run of digits, blanks *)
IsPaddedNumeral(u) ==
    \E a \in 1..Len(u) : \E b \in a..Len(u) :
        /\ \A k \in 1..Len(u) : IF k < a \/ k > b THEN u[k] = " " ELSE u[k] \in Digits

NumeralValue(u) == DigitsValue(SelectSeq(u, LAMBDA c : c \in Digits))

(* blanks, an optional sign immediately followed by digits, blanks *)
IsIntegerTerm(t) ==
    \/ IsPaddedNumeral(t)
    \/ \E h \in 1..Len(t) :
          /\ t[h] = "-"
          /\ \A k \in 1..(h - 1) : t[k] = " "
          /\ h < Len(t) /\ t[h + 1] \in Digits
          /\ IsPaddedNumeral(SubSeq(t, h + 1, Len(t)))

IntegerTermValue(t) ==
    IF \E k \in 1..Len(t) : t[k] = "-" THEN 0 - NumeralValue(t) ELSE NumeralValue(t)

Hyphens(t) == {k \in 1..Len(t) : t[k] = "-"}

(* exactly two integers joined by one hyphen *)
IsRangeTerm(t) ==
    /\ Cardinality(Hyphens(t)) = 1
    /\ LET h == CHOOSE k \in Hyphens(t) : TRUE
       IN  /\ IsPaddedNumeral(SubSeq(t, 1, h - 1))
           /\ IsPaddedNumeral(SubSeq(t, h + 1, Len(t)))

RangeLo(t) == NumeralValue(SubSeq(t, 1, (CHOOSE k \in Hyphens(t) : TRUE) - 1))

RangeHi(t) == NumeralValue(SubSeq(t, (CHOOSE k \in Hyphens(t) : TRUE) + 1, Len(t)))

IsForwardRange(t) == IsRangeTerm(t) /\ RangeLo(t) <= RangeHi(t)

IsBackwardRange(t) == IsRangeTerm(t) /\ RangeLo(t) > RangeHi(t)

WellFormedTerm(t) == IsIntegerTerm(t) \/ IsRangeTerm(t)

(* the line numbers a well-formed term stands for *)
TermLines(t) ==
    IF IsIntegerTerm(t) THEN {IntegerTermValue(t)}
    ELSE IF IsForwardRange(t) THEN RangeLo(t)..RangeHi(t)
    ELSE {}

Returned == pc = "parse_return"

(* C1: a specification whose terms are all single integers or ranges a-b   *)
(* with a <= b is accepted, and the returned line numbers are exactly the  *)
(* union of the terms' line numbers.                                       *)
C1_ParseUnion ==
    (Returned /\ \A t \in TermSet(highlight_lines.val) :
                     IsIntegerTerm(t) \/ IsForwardRange(t))
    => /\ lines.some
       /\ Range(lines.val) = UNION {TermLines(t) : t \in TermSet(highlight_lines.val)}

C1_Witness ==
    /\ Returned
    /\ \A t \in TermSet(highlight_lines.val) : IsIntegerTerm(t) \/ IsForwardRange(t)
    /\ \E t \in TermSet(highlight_lines.val) : IsForwardRange(t) /\ RangeLo(t) < RangeHi(t)
    /\ \E t \in TermSet(highlight_lines.val) : IsIntegerTerm(t)
    /\ lines.some /\ Cardinality(Range(lines.val)) >= 3

(* C3: every returned line number is positive (>= 1).                      *)
C3_OnlyPositive ==
    (Returned /\ lines.some) => \A k \in DOMAIN lines.val : lines.val[k] >= 1

(* C8: a range a-b with a > b is accepted and contributes nothing: the     *)
(* result holds exactly the line numbers of the other terms.               *)
C8_BackwardRangeEmpty ==
    (/\ Returned
     /\ \A t \in TermSet(highlight_lines.val) : WellFormedTerm(t)
     /\ \E t \in TermSet(highlight_lines.val) : IsBackwardRange(t))
    => /\ lines.some
       /\ Range(lines.val) =
            UNION {TermLines(t) : t \in {u \in TermSet(highlight_lines.val) :
                                            ~IsBackwardRange(u)}}

C8_Witness ==
    /\ Returned
    /\ \E t \in TermSet(highlight_lines.val) : IsBackwardRange(t)
    /\ \E t \in TermSet(highlight_lines.val) : IsIntegerTerm(t)
    /\ lines.some /\ Cardinality(Range(lines.val)) = 1


-----------------------------------------------------------------------------
(* Canonical serialization of a LineSet: its distinct elements, ascending, *)
(* in decimal, separated by commas.                                        *)

DigitChar(d) ==
    CASE d = 0 -> "0" [] d = 1 -> "1" [] d = 2 -> "2" [] d = 3 -> "3"
      [] d = 4 -> "4" [] d = 5 -> "5" [] d = 6 -> "6" [] d = 7 -> "7"
      [] d = 8 -> "8" [] d = 9 -> "9"

RECURSIVE NatToStr(_)
NatToStr(n) ==
    IF n < 10 THEN <<DigitChar(n)>>
    ELSE NatToStr(n \div 10) \o <<DigitChar(n % 10)>>

IntToStr(n) == IF n < 0 THEN <<"-">> \o NatToStr(0 - n) ELSE NatToStr(n)

RECURSIVE SeqMin(_, _, _)
SeqMin(q, lo, hi) ==
    IF lo = hi THEN q[lo]
    ELSE LET mid == (lo + hi) \div 2
             a   == SeqMin(q, lo, mid)
             b   == SeqMin(q, mid + 1, hi)
         IN  IF a <= b THEN a ELSE b

RECURSIVE SeqMax(_, _, _)
SeqMax(q, lo, hi) ==
    IF lo = hi THEN q[lo]
    ELSE LET mid == (lo + hi) \div 2
             a   == SeqMax(q, lo, mid)
             b   == SeqMax(q, mid + 1, hi)
         IN  IF a >= b THEN a ELSE b

RECURSIVE Ascending(_, _, _)
(* the elements of S within lo..hi, ascending *)
Ascending(S, lo, hi) ==
    IF lo > hi THEN <<>>
    ELSE IF lo = hi THEN (IF lo \in S THEN <<lo>> ELSE <<>>)
    ELSE LET mid == (lo + hi) \div 2
         IN  Ascending(S, lo, mid) \o Ascending(S, mid + 1, hi)

(* the serialization of the set of elements of the list q *)
Serialize(q) ==
    IF q = <<>> THEN <<>>
    ELSE LET e == Ascending(Range(q), SeqMin(q, 1, Len(q)), SeqMax(q, 1, Len(q)))
         IN  Flatten([k \in DOMAIN e |->
                        IF k = 1 THEN IntToStr(e[k]) ELSE <<",">> \o IntToStr(e[k])],
                     1, Len(e))

Reparsed == parse_highlight_lines(Serialize(lines.val))

(* C6 as stated: re-parsing the canonical serialization of any returned    *)
(* LineSet succeeds and yields the same LineSet.                           *)
C6_ReparseAny ==
    (Returned /\ lines.some)
    => (Reparsed.some /\ Range(Reparsed.val) = Range(lines.val))

(* C6 amended: re-parsing the canonical serialization of any non-empty     *)
(* returned LineSet succeeds and yields the same LineSet.                  *)
C6_ReparseNonEmpty ==
    (Returned /\ lines.some /\ lines.val # <<>>)
    => (Reparsed.some /\ Range(Reparsed.val) = Range(lines.val))

C6_Witness ==
    /\ Returned /\ lines.some
    /\ Cardinality(Range(lines.val)) >= 2
    /\ \E k \in DOMAIN lines.val : lines.val[k] < 0
    /\ Reparsed.some /\ Range(Reparsed.val) = Range(lines.val)


-----------------------------------------------------------------------------
(* prepare *)

(* the names pygments.lexers.get_lexer_by_name finds a lexer for *)
KnownLexers == {"python"}

Languages == {LANGUAGE_DEFAULT, "python", "klingon"}

SourceFileNames == {SOURCE_FILE_NAME_DEFAULT, "code.py"}

ElementTexts == {None, Some(<<" ">>), Some(<<"x">>)}

PyIsSpace(s) == s # <<>> /\ \A k \in DOMAIN s : s[k] = " "

(* the two arguments of the map call, in the order the call gives them *)
AllLexersGenerator == [kind |-> "generator"]

AliasLambda == [kind |-> "function"]

(* map(function, iterable): map takes iter() of its second argument when   *)
(* it is built, and raises TypeError if that argument is not iterable.     *)
PyMap(function, iterable) ==
    IF iterable.kind \in {"generator", "list", "tuple"}
    THEN [raised |-> FALSE, exc |-> NoExc]
    ELSE [raised |-> TRUE,
          exc |-> Raise("TypeError", <<"'function' object is not iterable">>)]

(* lines 92-97: what the language check raises, NoExc when it passes *)
CheckLanguage(lang) ==
    IF lang = LANGUAGE_DEFAULT THEN NoExc
    ELSE IF lang \in KnownLexers THEN NoExc
    ELSE LET allowed_languages == PyMap(AllLexersGenerator, AliasLambda)
         IN  IF allowed_languages.raised THEN allowed_languages.exc
             ELSE Raise("Exception",
                        <<"Unknown language: \"", lang, "\". Must be one of ">>)

InitPrepare ==
    /\ pc = "prepare_language"
    /\ highlight_lines = HIGHLIGHT_LINES_DEFAULT
    /\ lines = Unset
    /\ language = LANGUAGE_DEFAULT
    /\ source_file_name = SOURCE_FILE_NAME_DEFAULT
    /\ element_text = None
    /\ exc = NoExc
    /\ FormatterIdle /\ StreamIdle /\ RenderIdle

PrepLanguage ==
    /\ pc = "prepare_language"
    /\ \E lang \in Languages :
          /\ language' = lang
          /\ exc' = CheckLanguage(lang)
          /\ pc' = IF CheckLanguage(lang) = NoExc
                   THEN "prepare_source_file" ELSE "prepare_raise"
    /\ UNCHANGED <<highlight_lines, lines, source_file_name, element_text>>
    /\ UNCHANGED <<formatterVars, streamVars, renderVars>>

PrepSourceFile ==
    /\ pc = "prepare_source_file"
    /\ \E name \in SourceFileNames :
          /\ source_file_name' = name
          /\ IF name # SOURCE_FILE_NAME_DEFAULT
             THEN \E text \in ElementTexts :
                     /\ element_text' = text
                     /\ IF text.some /\ ~PyIsSpace(text.val)
                        THEN /\ exc' = Raise("Exception",
                                  <<"Existing code cannot be added inside html element when \"source-file-name\" attribute is used.">>)
                             /\ pc' = "prepare_raise"
                        ELSE /\ exc' = exc
                             /\ pc' = "prepare_highlight_lines"
             ELSE /\ pc' = "prepare_highlight_lines"
                  /\ UNCHANGED <<element_text, exc>>
    /\ UNCHANGED <<highlight_lines, lines, language>>
    /\ UNCHANGED <<formatterVars, streamVars, renderVars>>

PrepHighlightLines ==
    /\ pc = "prepare_highlight_lines"
    /\ \E hl \in {HIGHLIGHT_LINES_DEFAULT} \cup {Some(s) : s \in Strings(MaxLen)} :
          /\ highlight_lines' = hl
          /\ IF hl # None
             THEN /\ lines' = parse_highlight_lines(hl.val)
                  /\ IF parse_highlight_lines(hl.val) = None
                     THEN /\ exc' = Raise("Exception",
                               <<"Could not parse highlight-lines attribute; check your syntax">>)
                          /\ pc' = "prepare_raise"
                     ELSE /\ exc' = exc
                          /\ pc' = "prepare_return"
             ELSE /\ pc' = "prepare_return"
                  /\ UNCHANGED <<lines, exc>>
    /\ UNCHANGED <<language, source_file_name, element_text>>
    /\ UNCHANGED <<formatterVars, streamVars, renderVars>>

NextPrepare == PrepLanguage \/ PrepSourceFile \/ PrepHighlightLines

SpecPrepare == InitPrepare /\ [][NextPrepare]_vars

PrepareEnded == pc \in {"prepare_return", "prepare_raise"}

(* C2: if any term, at any position, is neither a bare integer nor exactly *)
(* two integers joined by one hyphen, parse_highlight_lines returns None   *)
(* (never a partial list) and prepare raises.                              *)
C2_MalformedRejected ==
    (/\ PrepareEnded
     /\ highlight_lines.some
     /\ \E t \in TermSet(highlight_lines.val) : ~WellFormedTerm(t))
    => /\ lines = None
       /\ pc = "prepare_raise"
       /\ exc.type # "none"

C2_Witness ==
    /\ pc = "prepare_raise"
    /\ highlight_lines.some
    /\ \E t \in TermSet(highlight_lines.val) : IsIntegerTerm(t)
    /\ \E t \in TermSet(highlight_lines.val) : Cardinality(Hyphens(t)) >= 2
    /\ lines = None

(* C7: an unknown language makes prepare fail with the exception whose     *)
(* message is 'Unknown language: "<language>"...', naming the language.    *)
C7_UnknownLanguageNamed ==
    (PrepareEnded /\ language \notin KnownLexers \cup {LANGUAGE_DEFAULT})
    => /\ pc = "prepare_raise"
       /\ exc.type = "Exception"
       /\ Len(exc.msg) >= 2
       /\ exc.msg[1] = "Unknown language: \""
       /\ exc.msg[2] = language


-----------------------------------------------------------------------------
(* HighlightingHtmlFormatter._highlight_lines *)

Item(t, value) == [t |-> t, value |-> value]

(* the f-string of line 53, as the sequence of its pieces *)
HighlightSpan(color, value) ==
    <<"<span class=\"pl-code-highlighted-line\" style=\"background-color: ",
      color, "\">">> \o value \o <<"</span>">>

(* the loop body testing i, not i + 1, against hl_lines *)
HighlightItem_ZeroBased(i, t, value, hls, color) ==
    (IF t # 1 THEN <<Item(t, value)>> ELSE <<>>)
    \o (IF i \in hls
        THEN <<Item(1, HighlightSpan(color, value))>>
        ELSE <<Item(1, value)>>)

(* one pass of the loop body for item number i (from 0): the items yielded *)
HighlightItem(i, t, value, hls, color) ==
    (IF t # 1 THEN <<Item(t, value)>> ELSE <<>>)
    \o (IF i + 1 \in hls
        THEN <<Item(1, HighlightSpan(color, value))>>
        ELSE <<Item(1, value)>>)

ItemTags == {0, 1}

ItemValues == {<<"a">>, <<"b", "\n">>}

Items == {Item(t, v) : t \in ItemTags, v \in ItemValues}

Streams == UNION {[1..n -> Items] : n \in 0..MaxItems}

InitHighlight ==
    /\ pc = "hl_loop"
    /\ tokensource \in Streams
    /\ hl_lines \in SUBSET (0..(MaxItems + 1))
    /\ hl_color \in {HIGHLIGHT_LINES_COLOR_DEFAULT, "#ff0000"}
    /\ idx = 0
    /\ out = <<>>
    /\ ElementIdle /\ RenderIdle

HighlightNext ==
    /\ pc = "hl_loop"
    /\ idx < Len(tokensource)
    /\ out' = out \o HighlightItem(idx, tokensource[idx + 1].t,
                                   tokensource[idx + 1].value, hl_lines, hl_color)
    /\ idx' = idx + 1
    /\ UNCHANGED <<pc, tokensource, formatterVars, elementVars, renderVars>>

HighlightStop ==
    /\ pc = "hl_loop"
    /\ idx = Len(tokensource)
    /\ pc' = "hl_done"
    /\ UNCHANGED <<streamVars, formatterVars, elementVars, renderVars>>

NextHighlight == HighlightNext \/ HighlightStop

SpecHighlight == InitHighlight /\ [][NextHighlight]_vars

(* v is w enclosed in one highlight span of the given colour *)
Encloses(v, w, color) ==
    /\ Len(v) = Len(w) + 4
    /\ v[1] = "<span class=\"pl-code-highlighted-line\" style=\"background-color: "
    /\ v[2] = color
    /\ v[3] = "\">"
    /\ SubSeq(v, 4, Len(v) - 1) = w
    /\ v[Len(v)] = "</span>"

IsEnclosed(v) == Len(v) >= 4 /\ Encloses(v, SubSeq(v, 4, Len(v) - 1), v[2])

AllLines == \A k \in DOMAIN tokensource : tokensource[k].t = 1

(* C4: for a stream of n lines, output line k is enclosed in a highlight   *)
(* span of the configured colour iff k is in hl_lines; the other lines are *)
(* unchanged, the order is kept, and the number of spans is the number of  *)
(* elements of hl_lines within 1..n.                                       *)
C4_LinesHighlighted ==
    (pc = "hl_done" /\ AllLines)
    => /\ Len(out) = Len(tokensource)
       /\ \A k \in DOMAIN out :
             /\ out[k].t = 1
             /\ IF k \in hl_lines
                THEN Encloses(out[k].value, tokensource[k].value, hl_color)
                ELSE out[k].value = tokensource[k].value
       /\ Cardinality({k \in DOMAIN out : IsEnclosed(out[k].value)})
            = Cardinality(hl_lines \cap (1..Len(tokensource)))

C4_Witness ==
    /\ pc = "hl_done" /\ AllLines
    /\ Len(tokensource) = 3
    /\ hl_lines = {2, 4}
    /\ hl_color = "#ff0000"
    /\ Cardinality({k \in DOMAIN out : IsEnclosed(out[k].value)}) = 1
    /\ IsEnclosed(out[2].value)

(* C10: whatever the tags, the output has exactly one item per input item, *)
(* in order, each the input value or that value in one highlight span.     *)
C10_OneItemPerItem ==
    pc = "hl_done"
    => /\ Len(out) = Len(tokensource)
       /\ \A k \in DOMAIN out :
             \/ out[k].value = tokensource[k].value
             \/ Encloses(out[k].value, tokensource[k].value, hl_color)


-----------------------------------------------------------------------------
(* NoHighlightingLexer *)

NoHighlightingLexer == [kind |-> "NoHighlightingLexer", name |-> "", compress |-> ""]

get_tokens_unprocessed(text) == <<[pos |-> 0, type |-> "Token.Text", text |-> text]>>

-----------------------------------------------------------------------------
(* render, up to the call of pygments.highlight *)

CR == "\r"

LF == "\n"

(* s[:-n] *)
PyDropLast(s, n) == IF Len(s) <= n THEN <<>> ELSE SubSeq(s, 1, Len(s) - n)

(* s[n:] *)
PyDropFirst(s, n) == IF Len(s) <= n THEN <<>> ELSE SubSeq(s, n + 1, Len(s))

RECURSIVE TextModeRead(_)
(* open(path, 'r') reads with universal newlines: "\r\n" and a lone "\r"   *)
(* both arrive as "\n"; readlines() and the += loop put the lines together *)
TextModeRead(raw) ==
    IF raw = <<>> THEN <<>>
    ELSE IF raw[1] = CR
         THEN IF Len(raw) >= 2 /\ raw[2] = LF
              THEN <<LF>> \o TextModeRead(PyDropFirst(raw, 2))
              ELSE <<LF>> \o TextModeRead(PyDropFirst(raw, 1))
         ELSE <<raw[1]>> \o TextModeRead(PyDropFirst(raw, 1))

(* lines 130-134 *)
ChopEndingNewlines(c) ==
    LET c1 == IF PyDropLast(c, 2) = <<CR, LF>> THEN PyDropLast(c, 2) ELSE c
    IN  IF PyDropLast(c1, 1) = <<LF>> THEN PyDropLast(c1, 1) ELSE c1

(* lines 149-153 *)
StripLeadingNewline(c) ==
    IF Len(c) > 1 /\ c[1] = CR /\ c[2] = LF THEN PyDropFirst(c, 2)
    ELSE IF Len(c) > 0 /\ (c[1] = LF \/ c[1] = CR) THEN PyDropFirst(c, 1)
    ELSE c

EscapeChar(c) ==
    CASE c = "&"  -> <<"&", "a", "m", "p", ";">>
      [] c = "<"  -> <<"&", "l", "t", ";">>
      [] c = ">"  -> <<"&", "g", "t", ";">>
      [] c = "\"" -> <<"&", "q", "u", "o", "t", ";">>
      [] c = "'"  -> <<"&", "#", "x", "2", "7", ";">>
      [] OTHER    -> <<c>>

(* html.escape(s) *)
PyEscape(s) == Flatten([k \in DOMAIN s |-> EscapeChar(s[k])], 1, Len(s))

EscapedChars == {"&", "<", ">", "\"", "'"}

StartsWith(s, prefix) ==
    Len(s) >= Len(prefix) /\ SubSeq(s, 1, Len(prefix)) = prefix

RECURSIVE PyUnescape(_)
(* html.unescape(s), for the character references html.escape writes *)
PyUnescape(s) ==
    IF s = <<>> THEN <<>>
    ELSE IF \E c \in EscapedChars : StartsWith(s, EscapeChar(c))
         THEN LET c == CHOOSE d \in EscapedChars : StartsWith(s, EscapeChar(d))
              IN  <<c>> \o PyUnescape(PyDropFirst(s, Len(EscapeChar(c))))
         ELSE <<s[1]>> \o PyUnescape(PyDropFirst(s, 1))

(* line 114 without the no-highlight test *)
SpecifyLanguage_IgnoresNoHighlight(lang, nohl) == lang # LANGUAGE_DEFAULT

(* line 114 *)
SpecifyLanguage(lang, nohl) == (lang # LANGUAGE_DEFAULT) /\ (~nohl)

FileAlphabet == {"a", "<", CR, LF}

FileContents == UNION {[1..n -> FileAlphabet] : n \in 0..MaxFileLen}

InnerAlphabet == {"a", CR, LF}

InnerHtmls == UNION {[1..n -> InnerAlphabet] : n \in 0..MaxFileLen}

LexerTexts == UNION {[1..n -> {"a", LF}] : n \in 0..MaxTextLen}

RenderHighlightLines ==
    {HIGHLIGHT_LINES_DEFAULT, Some(<<"2">>), Some(<<"1", "-", "2">>), Some(<<"x">>)}

InitRender ==
    /\ pc = "render_attribs"
    /\ ElementIdle /\ FormatterIdle /\ StreamIdle /\ RenderIdle

(* lines 111-118 *)
RenderAttribs ==
    /\ pc = "render_attribs"
    /\ language' \in Languages
    /\ no_highlight' \in BOOLEAN
    /\ source_file_name' \in SourceFileNames
    /\ highlight_lines' \in RenderHighlightLines
    /\ highlight_lines_color' \in {HIGHLIGHT_LINES_COLOR_DEFAULT, "#ff0000"}
    /\ pc' = "render_load"
    /\ UNCHANGED <<lines, element_text, exc, formatterVars, streamVars,
                   file_raw, code, lexer, lexer_text, tokens>>

(* lines 120-128 *)
RenderReadFile ==
    /\ pc = "render_load"
    /\ source_file_name # SOURCE_FILE_NAME_DEFAULT
    /\ \E exists \in BOOLEAN :
          IF ~exists
          THEN /\ exc' = Raise("Exception", <<"Unknown file path: \"", source_file_name, "\".">>)
               /\ pc' = "render_raise"
               /\ UNCHANGED <<file_raw, code>>
          ELSE /\ \E raw \in FileContents :
                     /\ file_raw' = raw
                     /\ code' = TextModeRead(raw)
               /\ pc' = "render_chop"
               /\ exc' = exc
    /\ UNCHANGED <<highlight_lines, lines, language, source_file_name, element_text,
                   formatterVars, streamVars, no_highlight, highlight_lines_color,
                   lexer, lexer_text, tokens>>

(* lines 130-134 *)
RenderChop ==
    /\ pc = "render_chop"
    /\ code' = ChopEndingNewlines(code)
    /\ pc' = "render_escape"
    /\ UNCHANGED <<elementVars, formatterVars, streamVars, no_highlight,
                   highlight_lines_color, file_raw, lexer, lexer_text, tokens>>

(* lines 136-138 *)
RenderEscape ==
    /\ pc = "render_escape"
    /\ code' = PyEscape(code)
    /\ pc' = "render_lexer"
    /\ UNCHANGED <<elementVars, formatterVars, streamVars, no_highlight,
                   highlight_lines_color, file_raw, lexer, lexer_text, tokens>>

(* lines 139-153 *)
RenderInnerHtml ==
    /\ pc = "render_load"
    /\ source_file_name = SOURCE_FILE_NAME_DEFAULT
    /\ \E inner \in InnerHtmls : code' = StripLeadingNewline(inner)
    /\ pc' = "render_lexer"
    /\ UNCHANGED <<elementVars, formatterVars, streamVars, no_highlight,
                   highlight_lines_color, file_raw, lexer, lexer_text, tokens>>

(* lines 155-158 *)
RenderLexer ==
    /\ pc = "render_lexer"
    /\ IF SpecifyLanguage(language, no_highlight)
       THEN IF language \in KnownLexers
            THEN /\ lexer' = [kind |-> "named", name |-> language, compress |-> ""]
                 /\ pc' = "render_formatter"
                 /\ exc' = exc
            ELSE /\ exc' = Raise("ClassNotFound", <<language>>)
                 /\ pc' = "render_raise"
                 /\ lexer' = lexer
       ELSE /\ lexer' = NoHighlightingLexer
            /\ pc' = "render_formatter"
            /\ exc' = exc
    /\ UNCHANGED <<highlight_lines, lines, language, source_file_name, element_text,
                   formatterVars, streamVars, no_highlight, highlight_lines_color,
                   file_raw, code, lexer_text, tokens>>

(* lines 160-169; the formatter's constructor keeps hl_lines as a set and  *)
(* refuses an hl_lines option that is no list                              *)
RenderFormatter ==
    /\ pc = "render_formatter"
    /\ IF highlight_lines # HIGHLIGHT_LINES_DEFAULT
       THEN /\ lines' = parse_highlight_lines(highlight_lines.val)
            /\ IF parse_highlight_lines(highlight_lines.val) = None
               THEN /\ exc' = Raise("OptionError", <<"hl_lines">>)
                    /\ pc' = "render_raise"
                    /\ UNCHANGED formatterVars
               ELSE /\ hl_lines' = Range(parse_highlight_lines(highlight_lines.val).val)
                    /\ hl_color' = highlight_lines_color
                    /\ pc' = "render_highlight"
                    /\ exc' = exc
       ELSE /\ hl_lines' = {}
            /\ hl_color' = HIGHLIGHT_LINES_COLOR_DEFAULT
            /\ pc' = "render_highlight"
            /\ UNCHANGED <<lines, exc>>
    /\ UNCHANGED <<highlight_lines, language, source_file_name, element_text,
                   streamVars, renderVars>>

(* line 171: the argument handed to pygments.highlight *)
RenderHighlight ==
    /\ pc = "render_highlight"
    /\ code' = PyUnescape(code)
    /\ pc' = "render_lex"
    /\ UNCHANGED <<elementVars, formatterVars, streamVars, no_highlight,
                   highlight_lines_color, file_raw, lexer, lexer_text, tokens>>

(* pygments calls the selected lexer's get_tokens_unprocessed with the     *)
(* text it has prepared from that argument                                 *)
LexerGetTokensUnprocessed ==
    /\ pc = "render_lex"
    /\ lexer = NoHighlightingLexer
    /\ \E text \in LexerTexts :
          /\ lexer_text' = text
          /\ tokens' = get_tokens_unprocessed(text)
    /\ pc' = "render_format"
    /\ UNCHANGED <<elementVars, formatterVars, streamVars, no_highlight,
                   highlight_lines_color, file_raw, code, lexer>>

NextRender ==
    \/ RenderAttribs
    \/ RenderReadFile
    \/ RenderChop
    \/ RenderEscape
    \/ RenderInnerHtml
    \/ RenderLexer
    \/ RenderFormatter
    \/ RenderHighlight
    \/ LexerGetTokensUnprocessed

SpecRender == InitRender /\ [][NextRender]_vars

LexerSelected == lexer # NoLexer

(* C5: with no language or with no-highlight set, render selects the       *)
(* NoHighlightingLexer, whose get_tokens_unprocessed yields exactly one    *)
(* token, of type Token.Text, whose text is the whole input; with a        *)
(* language and no-highlight unset the lexer named by the language is      *)
(* selected.                                                               *)
C5_PassThroughLexer ==
    /\ (LexerSelected /\ (language = LANGUAGE_DEFAULT \/ no_highlight))
          => lexer.kind = "NoHighlightingLexer"
    /\ (LexerSelected /\ language # LANGUAGE_DEFAULT /\ ~no_highlight)
          => (lexer.kind = "named" /\ lexer.name = language)
    /\ (pc = "render_raise" /\ exc.type = "ClassNotFound")
          => (language # LANGUAGE_DEFAULT /\ ~no_highlight)
    /\ (pc = "render_format" /\ lexer.kind = "NoHighlightingLexer")
          => /\ Len(tokens) = 1
             /\ tokens[1].type = "Token.Text"
             /\ tokens[1].text = lexer_text

C5_Witness ==
    /\ pc = "render_format"
    /\ language = "python" /\ no_highlight
    /\ lexer.kind = "NoHighlightingLexer"
    /\ lexer_text = <<"a", LF>>
    /\ Len(tokens) = 1 /\ tokens[1].text = <<"a", LF>>

(* the text read from the file, without its ending line terminator *)
EndingNewlineChopped(c) ==
    IF Len(c) >= 2 /\ c[Len(c) - 1] = CR /\ c[Len(c)] = LF THEN SubSeq(c, 1, Len(c) - 2)
    ELSE IF Len(c) >= 1 /\ c[Len(c)] = LF THEN SubSeq(c, 1, Len(c) - 1)
    ELSE c

(* C9: after the chop the code is the text read from the file without its  *)
(* ending "\r\n" or "\n", and is that text unchanged if it ends in neither *)
C9_EndingNewlineChopped ==
    pc = "render_escape" => code = EndingNewlineChopped(TextModeRead(file_raw))


=============================================================================
